---- MODULE Spec2Model ----
(***************************************************************************)
(* Chart-configuration persistence and regeneration of src/app.py.         *)
(*                                                                         *)
(* app.py is a Streamlit script: every user action re-executes the script  *)
(* from line 1.  One script run is modelled as the steps between its       *)
(* database statements, so that a commit of another browser session (each  *)
(* session runs the same script on its own connection to the same file     *)
(* graph_configs.db) can fall between the SELECT of line 210 and the       *)
(* DELETE of line 239.                                                     *)
(*                                                                         *)
(* Representation of Python values:                                        *)
(*   - a scalar (column label, cell value, NULL) is a record               *)
(*     [kind, text]: kind is the Python type ("str", "int", "null"), text  *)
(*     is what str() prints, so 2020 and "2020" are different scalars      *)
(*     with the same text;                                                 *)
(*   - a string built by an f-string is the sequence of its pieces;        *)
(*   - a dict / JSON object is a function from keys to the set of the      *)
(*     members of its value list;                                          *)
(*   - a DataFrame view is the sequence of the row labels (pandas index)   *)
(*     it keeps of the uploaded table.                                     *)
(***************************************************************************)
EXTENDS Integers, Sequences, FiniteSets, TLC

\* Largest number of INSERTs into graphs over a behaviour.
MaxSaves == 2

-----------------------------------------------------------------------------
(* Python scalars *)

S(t) == [kind |-> "str", text |-> t]
I(t) == [kind |-> "int", text |-> t]
None == [kind |-> "null", text |-> "None"]

\* The empty dict {} / the JSON object {}.
EmptyDict == [k \in {} |-> {}]

\* app.py:87
CHART_TYPES == <<"Bar", "Line", "Scatter", "Pie", "Histogram">>

ChartTypeSet == {CHART_TYPES[i] : i \in DOMAIN CHART_TYPES}

-----------------------------------------------------------------------------
(* Uploaded files and the tables pd.read_csv / pd.read_excel make of them. *)
(* columns: df.columns; numeric: the int64/float64 columns; the others are *)
(* of dtype object.  read_excel keeps a numeric header cell as an int      *)
(* label (years.xlsx), read_csv makes every label a str.                   *)

Row3(a, b, c) == (S("region") :> a) @@ (S("status") :> b) @@ (S("sales") :> c)

SalesCsv ==
  [columns |-> <<S("region"), S("status"), S("sales")>>,
   numeric |-> {S("sales")},
   rows    |-> << Row3(S("A"), S("on"),  I("10")),
                  Row3(S("B"), S("on"),  I("20")),
                  Row3(S("A"), S("off"), I("30")) >>]

RegionsCsv ==
  [columns |-> <<S("region"), S("status")>>,
   numeric |-> {},
   rows    |-> << (S("region") :> S("A")) @@ (S("status") :> S("on")),
                  (S("region") :> S("B")) @@ (S("status") :> S("off")) >>]

NoStatusCsv ==
  [columns |-> <<S("region"), S("sales")>>,
   numeric |-> {S("sales")},
   rows    |-> << (S("region") :> S("A")) @@ (S("sales") :> I("10")),
                  (S("region") :> S("B")) @@ (S("sales") :> I("20")) >>]

YearsXlsx ==
  [columns |-> <<I("2020"), S("sales")>>,
   numeric |-> {S("sales")},
   rows    |-> << (I("2020") :> S("A")) @@ (S("sales") :> I("10")),
                  (I("2020") :> S("B")) @@ (S("sales") :> I("20")) >>]

\* Files the loader parses, and one it raises on.
Readable == {"sales.csv", "regions.csv", "nostatus.csv", "years.xlsx"}
Broken   == "broken.csv"
NoFile   == "none"

\* app.py:94
ReadFile(f) ==
  CASE f = "sales.csv"   -> SalesCsv
    [] f = "regions.csv" -> RegionsCsv
    [] f = "nostatus.csv" -> NoStatusCsv
    [] f = "years.xlsx"  -> YearsXlsx

Range(seq) == {seq[i] : i \in DOMAIN seq}

AllCols(f)     == Range(ReadFile(f).columns)
NumericCols(f) == ReadFile(f).numeric
ObjectCols(f)  == AllCols(f) \ NumericCols(f)
Unique(f, col) == {ReadFile(f).rows[i][col] : i \in DOMAIN ReadFile(f).rows}

\* df.copy(): every row of the table, in order.
Copy(f) == [i \in DOMAIN ReadFile(f).rows |-> i]

\* view[view[col].isin(vals)]
IsIn(f, view, col, vals) ==
  SelectSeq(view, LAMBDA i : ReadFile(f).rows[i][col] \in vals)

-----------------------------------------------------------------------------
(* Sidebar widgets, app.py:119-138 *)

\* st.selectbox over an empty option list returns None.
Options(cols) == IF cols = {} THEN {None} ELSE cols

\* app.py:125
YOptions(f, ctype) ==
  Options(IF ctype # "Histogram" THEN NumericCols(f) ELSE AllCols(f))

W(ctype, x, y, selected) ==
  [chart_type |-> ctype, x_param |-> x, y_param |-> y, filters |-> selected]

\* The widget values tried for each file; all five chart types occur.
Tried(f) ==
  CASE f = "sales.csv" ->
         { W("Bar", S("region"), S("sales"), (S("region") :> {S("A")})),
           W("Line", S("region"), S("sales"),
             (S("region") :> {S("A")}) @@ (S("status") :> {S("on")})) }
    [] f = "regions.csv" ->
         { W("Pie", S("region"), None, (S("status") :> {S("on")})) }
    [] f = "nostatus.csv" ->
         { W("Scatter", S("region"), S("sales"), EmptyDict) }
    [] f = "years.xlsx" ->
         { W("Histogram", I("2020"), S("sales"), (I("2020") :> {S("A")})) }

\* What the widgets of app.py:119-138 can return in one run, among the
\* values tried: a chart type of CHART_TYPES, an x column of df, a y column
\* of the numeric columns (of all columns for a histogram), and for some
\* object columns a non-empty selection of the column's values
\* (app.py:137 drops a column whose selection is empty).
WidgetStates(f) ==
  { w \in Tried(f) :
      /\ w.chart_type \in ChartTypeSet
      /\ w.x_param \in Options(AllCols(f))
      /\ w.y_param \in YOptions(f, w.chart_type)
      /\ DOMAIN w.filters \subseteq ObjectCols(f)
      /\ \A c \in DOMAIN w.filters :
           w.filters[c] # {} /\ w.filters[c] \subseteq Unique(f, c) }

-----------------------------------------------------------------------------
(* Storage encoding: the graphs table, app.py:57-67, 192-202, 210, 239 *)

\* str(v), as an f-string or a JSON key prints v.
Str(v) == v.text

\* A column of declared type TEXT stores an integer as its decimal text and
\* NULL as NULL (SQLite column affinity).
TextAffinity(v) == IF v.kind = "int" THEN S(v.text) ELSE v

\* The name with the two columns exchanged.
FormatNameSwapped(ctype, x, y) == <<ctype, " | ", Str(y), " vs ", Str(x)>>

\* f"{chart_type} | {x_param} vs {y_param}", app.py:195
FormatName(ctype, x, y) == <<ctype, " | ", Str(x), " vs ", Str(y)>>

\* json.dumps(filters), app.py:199: the keys of a JSON object are strings, a
\* non-str key is written as str(key); the values of the arrays keep their
\* JSON type.
JsonKey(k) == IF k.kind = "str" THEN k ELSE S(Str(k))

JsonDumps(d) ==
  [json |-> [k \in {JsonKey(c) : c \in DOMAIN d} |->
               d[CHOOSE c \in DOMAIN d : JsonKey(c) = k]]]

\* json.loads(fjson), app.py:220
JsonLoads(t) == t.json

Max(a, b) == IF a >= b THEN a ELSE b

RECURSIVE MaxRowid(_)
MaxRowid(rows) ==
  IF rows = <<>> THEN 0 ELSE Max(Head(rows).id, MaxRowid(Tail(rows)))

\* INTEGER PRIMARY KEY without AUTOINCREMENT: one more than the largest rowid
\* now in the table.
NextIdOfRows(rows, sqlite_sequence) == MaxRowid(rows) + 1

\* id INTEGER PRIMARY KEY AUTOINCREMENT, app.py:59: one more than the largest
\* rowid the table has ever held (kept in sqlite_sequence).
NextId(rows, sqlite_sequence) == Max(sqlite_sequence, MaxRowid(rows)) + 1

\* INSERT INTO graphs (...) VALUES (?, ?, ?, ?, ?), app.py:192-201
Insert(rows, id, name, ctype, x, y, fjson) ==
  Append(rows, [id |-> id, name |-> name, chart_type |-> ctype,
                x_param |-> TextAffinity(x), y_param |-> TextAffinity(y),
                filters |-> fjson])

\* SELECT id, name, chart_type, x_param, y_param, filters FROM graphs
SelectAll(rows) == rows

\* DELETE FROM graphs WHERE id<=?
DeleteUpTo(rows, graph_id) == SelectSeq(rows, LAMBDA r : r.id > graph_id)

\* DELETE FROM graphs
DeleteAll(rows, graph_id) == <<>>

\* DELETE FROM graphs WHERE id=?
Delete(rows, graph_id) == SelectSeq(rows, LAMBDA r : r.id # graph_id)

Ids(rows) == {rows[i].id : i \in DOMAIN rows}

-----------------------------------------------------------------------------
(* Filtering and rendering *)

\* The loop left after its first entry.
FilterFirstOnly(f, view, d, keys) ==
  IF keys = {} THEN [raised |-> FALSE, view |-> view]
  ELSE LET col == CHOOSE k \in keys : TRUE
       IN  IF col \notin AllCols(f)
           THEN [raised |-> TRUE, view |-> view]
           ELSE [raised |-> FALSE, view |-> IsIn(f, view, col, d[col])]

\* for col, vals in d.items(): view = view[view[col].isin(vals)]
\* (app.py:140-141 on filters, app.py:221-222 on stored_filters).
\* view[col] raises KeyError when the table has no column col.
RECURSIVE FilterLoop(_, _, _, _)
FilterLoop(f, view, d, keys) ==
  IF keys = {} THEN [raised |-> FALSE, view |-> view]
  ELSE LET col == CHOOSE k \in keys : TRUE
       IN  IF col \notin AllCols(f)
           THEN [raised |-> TRUE, view |-> view]
           ELSE FilterLoop(f, IsIn(f, view, col, d[col]), d, keys \ {col})

\* px.bar / px.line / px.scatter / px.pie / px.histogram, app.py:224-233:
\* the call raises when a column it is given (not None) is not a column of
\* the view; px.histogram is given xval only.
Renders(f, ctype, xval, yval) ==
  LET refs == IF ctype = "Histogram" THEN {xval} ELSE {xval, yval}
  IN  \A r \in refs : r = None \/ r \in AllCols(f)

-----------------------------------------------------------------------------
(* State *)

VARIABLES
  store,            \* rows of table graphs in graph_configs.db, in rowid order
  sqlite_sequence,  \* largest rowid ever given to a row of graphs
  conn,             \* this run's connection: "none", "open", "closed"
  pc,               \* where the script run is
  click,            \* the button press that triggered this run
  rerun,            \* st.experimental_rerun() ended the last run
  uploaded_file,    \* app.py:85
  df,               \* app.py:94 (the file it was read from)
  chart_type, x_param, y_param,   \* app.py:119-125
  filters,          \* app.py:131-138
  filtered_df,      \* app.py:132-141
  graphs,           \* app.py:210
  pos,              \* position of the loop of app.py:212 in graphs
  viewButtons,      \* ids whose name and View button this run has drawn
  deleteButtons,    \* ids whose Delete button this run has drawn
  viewed,           \* id whose View button was pressed in this run, or 0
  temp_df,          \* the view handed to the renderer at app.py:224-233
  handed,           \* whether a view reached the renderer
  charted,          \* whether st.plotly_chart of app.py:235 drew it
  error,            \* what st.error of app.py:244 shows, or "none"
  created,          \* history: what each Save passed to INSERT, and its id
  deleted,          \* history: ids a DELETE statement was run with
  nDeletes,         \* history: DELETE statements run
  staleDeletes      \* history: of these, with an id not in the table

vars == <<store, sqlite_sequence, conn, pc, click, rerun, uploaded_file, df,
          chart_type, x_param, y_param, filters, filtered_df, graphs, pos,
          viewButtons, deleteButtons, viewed, temp_df, handed, charted, error,
          created, deleted, nDeletes, staleDeletes>>

dbVars   == <<store, sqlite_sequence>>
histVars == <<created, deleted, nDeletes, staleDeletes>>
widgetVars == <<uploaded_file, df, chart_type, x_param, y_param, filters,
                filtered_df>>
panelVars == <<graphs, pos, viewButtons, deleteButtons, viewed, temp_df,
               handed, charted>>

NoClick == [button |-> "none", id |-> 0]

\* The buttons of the page: Save Chart, and View / Delete of a listed item
\* (keys regen_<id>, del_<id>).
Clicks ==
  {NoClick, [button |-> "save", id |-> 0]}
    \cup [button : {"regen", "del"}, id : 1..MaxSaves]

Init ==
  /\ store = <<>>
  /\ sqlite_sequence = 0
  /\ conn = "none"
  /\ pc = "idle"
  /\ click = NoClick
  /\ rerun = FALSE
  /\ uploaded_file = NoFile
  /\ df = NoFile
  /\ chart_type = "Bar"
  /\ x_param = None
  /\ y_param = None
  /\ filters = EmptyDict
  /\ filtered_df = <<>>
  /\ graphs = <<>>
  /\ pos = 0
  /\ viewButtons = {}
  /\ deleteButtons = {}
  /\ viewed = 0
  /\ temp_df = <<>>
  /\ handed = FALSE
  /\ charted = FALSE
  /\ error = "none"
  /\ created = <<>>
  /\ deleted = {}
  /\ nDeletes = 0
  /\ staleDeletes = 0

-----------------------------------------------------------------------------
(* One script run *)

\* app.py:55-67, 85: a run starts on one widget event: a change of the
\* uploader or of a sidebar widget (no button pressed), or a press of a
\* button the page drawn by the last run shows (Save Chart of line 173,
\* regen_<id> of line 218, del_<id> of line 238; the file stays), or it is
\* the rerun a Delete asked for.  The connection is opened; CREATE TABLE IF
\* NOT EXISTS leaves the rows alone.
StartRun ==
  /\ pc \in {"idle", "done"}
  /\ \E f \in Readable \cup {Broken, NoFile}, c \in Clicks :
       /\ rerun => c = NoClick
       /\ (rerun \/ c # NoClick) => f = uploaded_file
       /\ c.button = "save" => df # NoFile /\ Len(created) < MaxSaves
       /\ c.button = "regen" => c.id \in viewButtons
       /\ c.button = "del" => c.id \in deleteButtons
       /\ uploaded_file' = f
       /\ click' = c
  /\ conn' = "open"
  /\ pc' = "main"
  /\ rerun' = FALSE
  /\ df' = NoFile
  /\ chart_type' = "Bar"
  /\ x_param' = None
  /\ y_param' = None
  /\ filters' = EmptyDict
  /\ filtered_df' = <<>>
  /\ graphs' = <<>>
  /\ pos' = 0
  /\ viewButtons' = {}
  /\ deleteButtons' = {}
  /\ viewed' = 0
  /\ temp_df' = <<>>
  /\ handed' = FALSE
  /\ charted' = FALSE
  /\ error' = "none"
  /\ UNCHANGED <<dbVars, histVars>>

\* app.py:92, 246-247: no file uploaded.
NoUpload ==
  /\ pc = "main"
  /\ uploaded_file = NoFile
  /\ pc' = "close"
  /\ UNCHANGED <<dbVars, histVars, conn, click, rerun, widgetVars, panelVars, error>>

\* app.py:94, 243-244: the loader raises, the catch-all handler shows it.
LoadFail ==
  /\ pc = "main"
  /\ uploaded_file = Broken
  /\ error' = "LoadError"
  /\ pc' = "close"
  /\ UNCHANGED <<dbVars, histVars, conn, click, rerun, widgetVars, panelVars>>

\* app.py:94-189: the table is read, the widgets return their values, the
\* live filters are applied and the main chart is drawn from columns of df.
LoadData ==
  /\ pc = "main"
  /\ uploaded_file \in Readable
  /\ df' = uploaded_file
  /\ \E w \in WidgetStates(uploaded_file) :
       /\ chart_type' = w.chart_type
       /\ x_param' = w.x_param
       /\ y_param' = w.y_param
       /\ filters' = w.filters
       /\ filtered_df' =
            FilterLoop(uploaded_file, Copy(uploaded_file), w.filters,
                       DOMAIN w.filters).view
  /\ pc' = "save"
  /\ UNCHANGED <<dbVars, histVars, conn, click, rerun, uploaded_file, panelVars, error>>

\* app.py:191-203
SaveChart ==
  /\ pc = "save"
  /\ click.button = "save"
  /\ LET id   == NextId(store, sqlite_sequence)
         name == FormatName(chart_type, x_param, y_param)
     IN  /\ store' = Insert(store, id, name, chart_type, x_param, y_param,
                            JsonDumps(filters))
         /\ sqlite_sequence' = id
         /\ created' = Append(created,
                         [id |-> id, name |-> name, chart_type |-> chart_type,
                          x_param |-> x_param, y_param |-> y_param,
                          filters |-> filters])
  /\ pc' = "select"
  /\ UNCHANGED <<deleted, nDeletes, staleDeletes, conn, click, rerun,
                 widgetVars, panelVars, error>>

\* app.py:191: the Save button was not pressed.
NoSave ==
  /\ pc = "save"
  /\ click.button # "save"
  /\ pc' = "select"
  /\ UNCHANGED <<dbVars, histVars, conn, click, rerun, widgetVars, panelVars, error>>

\* app.py:210
SelectGraphs ==
  /\ pc = "select"
  /\ graphs' = SelectAll(store)
  /\ pos' = 1
  /\ pc' = "panel"
  /\ UNCHANGED <<dbVars, histVars, conn, click, rerun, widgetVars,
                 viewButtons, deleteButtons, viewed, temp_df, handed, charted,
                 error>>

\* app.py:212-241, an item neither of whose buttons was pressed.
ShowItem ==
  /\ pc = "panel"
  /\ pos <= Len(graphs)
  /\ click \notin {[button |-> b, id |-> graphs[pos].id] : b \in {"regen", "del"}}
  /\ viewButtons' = viewButtons \cup {graphs[pos].id}
  /\ deleteButtons' = deleteButtons \cup {graphs[pos].id}
  /\ pos' = pos + 1
  /\ UNCHANGED <<dbVars, histVars, conn, pc, click, rerun, widgetVars, graphs,
                 viewed, temp_df, handed, charted, error>>

\* app.py:218-235, 243-244: what the View branch does to the page.  An
\* exception of the filter loop or of the renderer leaves the loop of line
\* 212 for the handler of line 243.
ViewPanel ==
  /\ pc = "panel"
  /\ pos <= Len(graphs)
  /\ click = [button |-> "regen", id |-> graphs[pos].id]
  /\ LET g == graphs[pos]
         stored_filters == JsonLoads(g.filters)
         res == FilterLoop(df, Copy(df), stored_filters, DOMAIN stored_filters)
         drawn == ~res.raised /\ Renders(df, g.chart_type, g.x_param, g.y_param)
     IN  /\ viewButtons' = viewButtons \cup {g.id}
         /\ viewed' = g.id
         /\ handed' = ~res.raised
         /\ temp_df' = IF res.raised THEN <<>> ELSE res.view
         /\ charted' = drawn
         /\ error' = IF res.raised THEN "KeyError"
                     ELSE IF ~drawn THEN "ColumnMissing" ELSE error
         /\ deleteButtons' = IF drawn THEN deleteButtons \cup {g.id}
                             ELSE deleteButtons
         /\ pos' = IF drawn THEN pos + 1 ELSE pos
         /\ pc' = IF drawn THEN pc ELSE "close"

\* A View that also drops the record it has shown.
ViewItemAndDrop ==
  /\ ViewPanel
  /\ store' = Delete(store, graphs[pos].id)
  /\ UNCHANGED <<sqlite_sequence, histVars, conn, click, rerun, widgetVars, graphs>>

\* app.py:212-235, 243-244: the item whose View button was pressed; the
\* branch runs no statement on conn.
ViewItem ==
  /\ ViewPanel
  /\ UNCHANGED <<dbVars, histVars, conn, click, rerun, widgetVars, graphs>>

\* app.py:212-216, 237-241: the item whose Delete button was pressed.
\* st.experimental_rerun() ends the run at once by raising a script-control
\* exception that is no subclass of Exception: neither the handler of line
\* 243 nor conn.close() of line 249 runs.
DeleteItem ==
  /\ pc = "panel"
  /\ pos <= Len(graphs)
  /\ click = [button |-> "del", id |-> graphs[pos].id]
  /\ LET g == graphs[pos]
     IN  /\ viewButtons' = viewButtons \cup {g.id}
         /\ deleteButtons' = deleteButtons \cup {g.id}
         /\ store' = Delete(store, g.id)
         /\ deleted' = deleted \cup {g.id}
         /\ nDeletes' = nDeletes + 1
         /\ staleDeletes' = IF g.id \in Ids(store) THEN staleDeletes
                            ELSE staleDeletes + 1
  /\ rerun' = TRUE
  /\ pc' = "done"
  /\ UNCHANGED <<sqlite_sequence, created, conn, click, widgetVars, graphs, pos,
                 viewed, temp_df, handed, charted, error>>

\* app.py:212: the loop is over.
PanelEnd ==
  /\ pc = "panel"
  /\ pos > Len(graphs)
  /\ pc' = "close"
  /\ UNCHANGED <<dbVars, histVars, conn, click, rerun, widgetVars, panelVars, error>>

\* app.py:249
CloseConn ==
  /\ pc = "close"
  /\ conn' = "closed"
  /\ pc' = "done"
  /\ UNCHANGED <<dbVars, histVars, click, rerun, widgetVars, panelVars, error>>

\* The DELETE and commit of app.py:239-240 run by another session of the app
\* on a record its panel lists.
OtherSessionDelete ==
  /\ \E id \in Ids(store) :
       /\ store' = Delete(store, id)
       /\ deleted' = deleted \cup {id}
  /\ nDeletes' = nDeletes + 1
  /\ UNCHANGED <<sqlite_sequence, created, staleDeletes, conn, pc, click, rerun,
                 widgetVars, panelVars, error>>

Next ==
  \/ StartRun
  \/ NoUpload
  \/ LoadFail
  \/ LoadData
  \/ SaveChart
  \/ NoSave
  \/ SelectGraphs
  \/ ShowItem
  \/ ViewItem
  \/ DeleteItem
  \/ PanelEnd
  \/ CloseConn
  \/ OtherSessionDelete

Spec == Init /\ [][Next]_vars

-----------------------------------------------------------------------------
(* Properties *)

\* The saved record whose View button this run pressed.
Viewed == graphs[CHOOSE i \in DOMAIN graphs : graphs[i].id = viewed]

\* The rows of table f whose value in every column of cols is a member of
\* that column's value list in d.
RowsWithin(f, d, cols) ==
  SelectSeq(Copy(f),
            LAMBDA i : \A c \in cols : ReadFile(f).rows[i][c] \in d[c])

\* C1: a View skips every saved filter entry whose column the current table
\* does not have, without raising: the view reaches the renderer and holds
\* the rows that pass the filters on the columns present in both.  Stated
\* for the records whose filter set reads back as it was saved.
C1_StaleFilterSkipped ==
  (/\ viewed # 0
   /\ \E j \in DOMAIN created :
        /\ created[j].id = viewed
        /\ created[j].filters = JsonLoads(Viewed.filters)) =>
    LET F == JsonLoads(Viewed.filters)
    IN  /\ error # "KeyError"
        /\ handed
        /\ temp_df = RowsWithin(df, F, DOMAIN F \cap AllCols(df))

\* C2: when the renderer fails on a saved record whose x or y column the
\* current table lacks, the run shows the error and still draws every other
\* listed item with its View and Delete buttons, and the record stays stored.
C2_OtherItemsStayUsable ==
  (pc = "done" /\ viewed # 0 /\ handed /\ ~charted) =>
    /\ error = "ColumnMissing"
    /\ viewed \in Ids(store) \cup deleted
    /\ \A i \in DOMAIN graphs :
         graphs[i].id # viewed =>
           graphs[i].id \in viewButtons /\ graphs[i].id \in deleteButtons

\* C3: every stored record reads back with the chart type, x column, y
\* column and filter set (after json.loads) that its Save was given.
C3_SaveRoundTrips ==
  \A i \in DOMAIN store :
    \E j \in DOMAIN created :
      /\ created[j].id = store[i].id
      /\ store[i].chart_type = created[j].chart_type
      /\ store[i].x_param = created[j].x_param
      /\ store[i].y_param = created[j].y_param
      /\ JsonLoads(store[i].filters) = created[j].filters

\* C4: after N Saves and M Deletes, each Delete of a record then stored, the
\* list holds exactly N - M records, each with the name its Save gave it.
C4_ListCount ==
  staleDeletes = 0 =>
    /\ Len(SelectAll(store)) = Len(created) - nDeletes
    /\ \A i \in DOMAIN SelectAll(store) :
         \E j \in DOMAIN created :
           /\ created[j].id = SelectAll(store)[i].id
           /\ created[j].name = SelectAll(store)[i].name

C4_Witness ==
  /\ Len(created) = 2
  /\ nDeletes = 1
  /\ staleDeletes = 0
  /\ Len(store) = 1

\* C5: no two stored records share an id, each Save gets an id greater than
\* every id given before (ids of deleted records included), and every saved
\* record that was not deleted is stored, also when its fields equal
\* another's.
C5_IdsUniqueMonotonic ==
  /\ \A i, j \in DOMAIN store : i # j => store[i].id # store[j].id
  /\ \A i, j \in DOMAIN created : i < j => created[i].id < created[j].id
  /\ \A j \in DOMAIN created :
       created[j].id \notin deleted => created[j].id \in Ids(store)

\* A record saved after the deletion of the record with the largest id.
C5_Witness ==
  /\ Len(created) = 2
  /\ created[1].id \in deleted
  /\ created[2].id \in Ids(store)
  /\ created[1].name = created[2].name
  /\ created[1].filters = created[2].filters

\* C6: a record that a DELETE was run for is never stored again; a DELETE
\* raises no error and removes the rows with its id and no other row, so
\* that a DELETE with an id not in the table changes nothing.
C6_DeleteFinalIdempotent ==
  /\ [](\A id \in deleted : id \notin Ids(store))
  /\ [][ nDeletes' # nDeletes =>
           /\ error' = error
           /\ \E id \in deleted' :
                store' = SelectSeq(store, LAMBDA r : r.id # id)
           /\ staleDeletes' # staleDeletes => store' = store ]_vars

\* This session has run DELETE with an id another session had deleted, next
\* to a record that is still stored.
C6_Witness ==
  /\ pc = "done"
  /\ rerun
  /\ staleDeletes > 0
  /\ store # <<>>
  /\ error = "none"

\* C7: the step of a View, failed or not, leaves the rows of graphs and the
\* id counter as they were.
C7_ViewReadsOnly ==
  [][ (viewed = 0 /\ viewed' # 0) =>
        (store' = store /\ sqlite_sequence' = sqlite_sequence) ]_vars

C7_Witness ==
  /\ viewed # 0
  /\ error = "ColumnMissing"
  /\ viewed \in Ids(store)

\* C8: a run that has ended has closed the connection it opened.
C8_ConnClosedAtEnd == pc = "done" => conn = "closed"

\* C9: when the current table has every column of the saved filter set, the
\* renderer is handed exactly the rows of the table that pass every saved
\* filter, and df and filtered_df are what the run made them before.
C9_ViewIsConjunction ==
  (viewed # 0 /\ DOMAIN JsonLoads(Viewed.filters) \subseteq AllCols(df)) =>
    LET F == JsonLoads(Viewed.filters)
    IN  /\ handed
        /\ temp_df = RowsWithin(df, F, DOMAIN F)
        /\ df = uploaded_file
        /\ filtered_df = RowsWithin(df, filters, DOMAIN filters)

\* A record with two filter columns, viewed on a table where each of them
\* alone keeps more rows than both, while the live filter keeps other rows.
C9_Witness ==
  /\ viewed # 0
  /\ charted
  /\ Cardinality(DOMAIN JsonLoads(Viewed.filters)) = 2
  /\ Len(temp_df) = 1
  /\ Len(filtered_df) = 2

\* C10: every stored record has one of the five chart types and the name
\* '<chart_type> | <x_param> vs <y_param>' of its own fields, and no step
\* changes a field of a record that stays stored.
C10_RecordsImmutable ==
  /\ [](\A i \in DOMAIN store :
          /\ store[i].chart_type \in {"Bar", "Line", "Scatter", "Pie", "Histogram"}
          /\ store[i].name = <<store[i].chart_type, " | ", store[i].x_param.text,
                               " vs ", store[i].y_param.text>>)
  /\ [][ \A i \in DOMAIN store : \A j \in DOMAIN store' :
           store[i].id = store'[j].id => store[i] = store'[j] ]_vars

\* A record saved from an int column label, still stored after a Save and
\* a Delete of another record.
C10_Witness ==
  /\ Len(created) = 2
  /\ nDeletes = 1
  /\ Len(store) = 1
  /\ store[1].chart_type = "Histogram"
  /\ store[1].x_param = S("2020")

====
